---- MODULE Spec2Model ----
(***************************************************************************)
(* Sensitivity-label pipeline of app/backend/core/labelhelper.py           *)
(* (LabelHelper) and its caller in app/backend/approaches/                 *)
(* retrievethenread.py (RetrieveThenReadApproach).                         *)
(*                                                                         *)
(* Python values are written as follows.                                   *)
(*   str          a sequence of one-character strings                      *)
(*   Optional[T]  a sequence of length <= 1: <<>> is None, <<x>> is x      *)
(*   dict (JSON)  a record whose every field is <<>> (key absent) or       *)
(*                <<v>> (key present with value v)                         *)
(***************************************************************************)
EXTENDS Integers, Sequences, FiniteSets, TLC

\* ------------------------------------------------------------ bounds

\* Longest list of search results one request carries.
MaxDocs == 2

\* Longest list of document labels handed to compute_label_inheritance on
\* its own.
MaxLabels == 3

\* Length, in clock ticks, of the window the claims measure the age of a
\* resolution against.  The program holds no such number: it never reads a
\* clock.
TTLTicks == 2

\* The configured maximum of cache entries the claims speak of, scaled down
\* so that the identifiers of the model exceed it.  The program holds no such
\* number.
MaxCacheEntries == 1

\* ------------------------------------------------------------ Python values

None == <<>>

Some(x) == <<x>>

\* bool(v) of an Optional[str]: None and "" are falsy.
Truthy(v) == v # None /\ v[1] # <<>>

\* d.get(k, default) where d[k] is <<>> (absent) or <<value>>.
DictGet(field, default) == IF field = <<>> THEN default ELSE field[1]

\* s[:n]
Prefix(s, n) == SubSeq(s, 1, IF Len(s) < n THEN Len(s) ELSE n)

\* s.startswith(p)
StartsWith(s, p) == Len(s) >= Len(p) /\ SubSeq(s, 1, Len(p)) = p

UpperChars == <<"A", "B", "C", "D", "E", "F", "G", "H", "I", "J", "K", "L", "M", "N", "O", "P", "Q", "R", "S", "T", "U", "V", "W", "X", "Y", "Z">>

LowerChars == <<"a", "b", "c", "d", "e", "f", "g", "h", "i", "j", "k", "l", "m", "n", "o", "p", "q", "r", "s", "t", "u", "v", "w", "x", "y", "z">>

HexChars == {"0", "1", "2", "3", "4", "5", "6", "7", "8", "9", "a", "b", "c", "d", "e", "f", "A", "B", "C", "D", "E", "F"}

LowerChar(c) ==
    IF \E k \in 1..Len(UpperChars) : UpperChars[k] = c
    THEN LowerChars[CHOOSE k \in 1..Len(UpperChars) : UpperChars[k] = c]
    ELSE c

\* s.lower()
StrLower(s) == [k \in 1..Len(s) |-> LowerChar(s[k])]

\* s.replace(a, b) for one-character a and b
StrReplaceChar(s, a, b) == [k \in 1..Len(s) |-> IF s[k] = a THEN b ELSE s[k]]

\* s.replace(a, "") for a one-character a
RECURSIVE StrRemoveChar(_, _)
StrRemoveChar(s, a) ==
    IF s = <<>> THEN <<>>
    ELSE IF Head(s) = a THEN StrRemoveChar(Tail(s), a)
    ELSE <<Head(s)>> \o StrRemoveChar(Tail(s), a)

\* ------------------------------------------------------------ strings of the program

BearerPrefix == <<"B", "e", "a", "r", "e", "r", " ">>

LabelDash == <<"L", "a", "b", "e", "l", "-">>

PurviewLabelOpen == <<"P", "u", "r", "v", "i", "e", "w", " ", "L", "a", "b", "e", "l", " ", "(">>

PurviewLabelIdOpen == <<"P", "u", "r", "v", "i", "e", "w", " ", "L", "a", "b", "e", "l", " ", "(", "I", "D", ":", " ">>

DotsClose == <<".", ".", ".", ")">>

\* ------------------------------------------------------------ inputs

\* Two label identifiers in GUID syntax, one hyphenated and one bare hex.
G1 == <<"3", "f", "2", "5", "0", "4", "e", "0", "-", "4", "f", "8", "9", "-", "4", "1", "d", "3", "-", "9", "a", "0", "c", "-", "0", "3", "0", "5", "e", "8", "2", "c", "3", "3", "0", "1">>

G2 == <<"A", "1", "B", "2", "C", "3", "D", "4", "4", "F", "8", "9", "4", "1", "D", "3", "9", "A", "0", "C", "0", "3", "0", "5", "E", "8", "2", "C", "3", "3", "0", "2">>

GUIDs == {G1, G2}

\* A free-text label with an upper-case letter and a space.
TopSecret == <<"T", "o", "p", " ", "S", "e", "c", "r", "e", "t">>

General == <<"G", "e", "n", "e", "r", "a", "l">>

Confidential == <<"C", "o", "n", "f", "i", "d", "e", "n", "t", "i", "a", "l">>

UserTok == <<"t", "o", "k", "U">>

AppTok == <<"t", "o", "k", "A">>

\* What a caller passes as user_access_token: None, "", a bare token, a
\* token with the "Bearer " prefix, a token with the prefix twice.
CallerTokens ==
    { None, Some(<<>>), Some(UserTok), Some(BearerPrefix \o UserTok),
      Some(BearerPrefix \o BearerPrefix \o UserTok) }

\* JSON bodies of a 200 answer of the label endpoint: every key optional,
\* priority absent, zero, positive, null or negative.
EmptyBody == [name |-> <<>>, displayName |-> <<>>, color |-> <<>>, priority |-> <<>>]

Bodies ==
    { EmptyBody,
      [name |-> <<>>, displayName |-> Some(<<>>), color |-> <<>>, priority |-> Some(Some(0))],
      [name |-> Some(Confidential), displayName |-> Some(TopSecret), color |-> Some("#ff0000"), priority |-> Some(Some(2))],
      [name |-> Some(General), displayName |-> <<>>, color |-> <<>>, priority |-> Some(None)],
      [name |-> Some(General), displayName |-> <<>>, color |-> <<>>, priority |-> Some(Some(-1))] }

\* What the collaborators of one _resolve_purview_label call do:
\*   credential  "token": get_token returns AppTok; "error": _get_credential
\*               or get_token raises; "unused": the caller's token is used
\*   http        "response": the GET is answered with `status`;
\*               "network_error" / "timeout": session.get raises;
\*               "unused": no token, no GET
\*   json        "ok": response.json() returns `body`; "error": it raises
HttpOutcomes ==
    { [http |-> "response", status |-> 200, json |-> "ok", body |-> b] : b \in Bodies }
    \cup
    { [http |-> "response", status |-> 200, json |-> "error", body |-> EmptyBody] }
    \cup
    { [http |-> "response", status |-> s, json |-> "ok", body |-> EmptyBody] : s \in {401, 404, 500} }
    \cup
    { [http |-> h, status |-> 0, json |-> "ok", body |-> EmptyBody] : h \in {"network_error", "timeout"} }

Env(c, o) == [credential |-> c, http |-> o.http, status |-> o.status, json |-> o.json, body |-> o.body]

Envs(user_access_token) ==
    IF Truthy(user_access_token)
    THEN { Env("unused", o) : o \in HttpOutcomes }
    ELSE { Env("token", o) : o \in HttpOutcomes }
         \cup { [credential |-> "error", http |-> "unused", status |-> 0, json |-> "ok", body |-> EmptyBody] }

\* ------------------------------------------------------------ LabelHelper

SensitivityLabel(id, name, display_name, color, priority) ==
    [id |-> id, name |-> name, display_name |-> display_name, color |-> color, priority |-> priority]

DocumentLabel(document_id, source_file, label) ==
    [document_id |-> document_id, source_file |-> source_file, label |-> label]

\* uuid.UUID(value) succeeds: 32 hex digits once the hyphens are taken out.
_is_guid(value) ==
    LET hex == StrRemoveChar(value, "-")
    IN  Len(hex) = 32 /\ \A k \in 1..Len(hex) : hex[k] \in HexChars

\* _create_label_from_string with the id taken from the name without
\* lower() (line 242).
_create_label_from_string_no_lower(label_name) ==
    SensitivityLabel(StrReplaceChar(label_name, " ", "-"),
                     label_name, label_name, "orange", Some(0))

_create_label_from_string(label_name) ==
    SensitivityLabel(StrReplaceChar(StrLower(label_name), " ", "-"),
                     label_name, label_name, "orange", Some(0))

\* The token selection without lines 105-106: the caller's token is used as
\* it came.
AccessToken_unstripped(user_access_token, env) ==
    IF Truthy(user_access_token)
    THEN Some(user_access_token[1])
    ELSE IF env.credential = "token" THEN Some(AppTok) ELSE None

\* The access token the lookup carries, <<>> when none could be obtained
\* (the credential raised).
AccessToken(user_access_token, env) ==
    IF Truthy(user_access_token)
    THEN Some(IF StartsWith(user_access_token[1], BearerPrefix)
              THEN SubSeq(user_access_token[1], 8, Len(user_access_token[1]))
              ELSE user_access_token[1])
    ELSE IF env.credential = "token" THEN Some(AppTok) ELSE None

\* The SensitivityLabel built from a 200 answer.
ResolvedLabel(label_id, label_data) ==
    LET label_name == DictGet(label_data.name, LabelDash \o Prefix(label_id, 8))
        raw_display_name == DictGet(label_data.displayName, <<>>)
        display_name == IF raw_display_name # <<>> THEN raw_display_name ELSE label_name
        api_color == DictGet(label_data.color, "#808080")
        priority == DictGet(label_data.priority, Some(0))
    IN  SensitivityLabel(label_id, label_name, display_name, api_color, priority)

\* The try block of _resolve_purview_label:
\*   exit       "return_label" (status 200), "return_none" (another status),
\*              "except" (an exception inside the block)
\*   ret        the label of exit "return_label"
\*   gets       the GET requests issued, in order
\*   get_token  how often the credential was asked for a token
TryBlock(label_id, user_access_token, env) ==
    LET access_token == AccessToken(user_access_token, env)
        gets == IF access_token # None
                THEN << [label_id |-> label_id, authorization |-> BearerPrefix \o access_token[1]] >>
                ELSE <<>>
        get_token == IF Truthy(user_access_token) THEN 0 ELSE 1
    IN  IF access_token = None \/ env.http # "response"
        THEN [exit |-> "except", ret |-> None, gets |-> gets, get_token |-> get_token]
        ELSE IF env.status # 200
        THEN [exit |-> "return_none", ret |-> None, gets |-> gets, get_token |-> get_token]
        ELSE IF env.json # "ok"
        THEN [exit |-> "except", ret |-> None, gets |-> gets, get_token |-> get_token]
        ELSE [exit |-> "return_label", ret |-> Some(ResolvedLabel(label_id, env.body)),
              gets |-> gets, get_token |-> get_token]

\* The resolver with the commented-out cache look-up (lines 94-96) and cache
\* store (line 157) switched on.
_resolve_purview_label_cached(cache, label_id, user_access_token, env) ==
    IF label_id \in DOMAIN cache
    THEN [ ret |-> Some(cache[label_id]), raised |-> FALSE, exit |-> "cached", gets |-> <<>>,
           get_token |-> 0, cache |-> cache ]
    ELSE LET b == TryBlock(label_id, user_access_token, env)
         IN  [ ret |-> b.ret, raised |-> FALSE, exit |-> b.exit, gets |-> b.gets,
               get_token |-> b.get_token,
               cache |-> IF b.exit = "return_label"
                         THEN (label_id :> b.ret[1]) @@ cache
                         ELSE cache ]

\* The resolver remembering failures: it stores None for an identifier it
\* could not resolve and answers from that entry afterwards.
_resolve_purview_label_failures_cached(cache, label_id, user_access_token, env) ==
    IF label_id \in DOMAIN cache
    THEN [ ret |-> None, raised |-> FALSE, exit |-> "cached", gets |-> <<>>,
           get_token |-> 0, cache |-> cache ]
    ELSE LET b == TryBlock(label_id, user_access_token, env)
         IN  [ ret |-> b.ret, raised |-> FALSE, exit |-> b.exit, gets |-> b.gets,
               get_token |-> b.get_token,
               cache |-> IF b.exit # "return_label"
                         THEN (label_id :> None) @@ cache
                         ELSE cache ]

\* The resolver without its `except Exception` clause.
_resolve_purview_label_no_except(cache, label_id, user_access_token, env) ==
    LET b == TryBlock(label_id, user_access_token, env)
    IN  [ ret |-> b.ret, raised |-> b.exit = "except", exit |-> b.exit, gets |-> b.gets,
          get_token |-> b.get_token, cache |-> cache ]

\* One call of _resolve_purview_label on the cache `cache`:
\*   ret     what it returns (None or a label)
\*   raised  whether an exception leaves it
\*   cache   the cache afterwards
\* The cache look-up before the try block and the cache store after a 200
\* answer are commented out in the source; `except Exception` returns None.
_resolve_purview_label(cache, label_id, user_access_token, env) ==
    LET b == TryBlock(label_id, user_access_token, env)
    IN  [ ret |-> b.ret, raised |-> FALSE, exit |-> b.exit, gets |-> b.gets,
          get_token |-> b.get_token, cache |-> cache ]

\* The extraction without lines 217-219: a field that is no identifier to
\* resolve yields no label.
ExtractLabel_identifiers_only(cache, enable, result, user_access_token, env) ==
    LET effective_label == result.metadata_sensitivity_label
        quiet == [label |-> None, raised |-> FALSE, resolved |-> None, gets |-> <<>>,
                  get_token |-> 0, cache |-> cache]
    IN  IF Truthy(effective_label) /\ _is_guid(effective_label[1]) /\ enable
        THEN LET r == _resolve_purview_label(cache, effective_label[1], user_access_token, env)
             IN  [ label |-> IF r.raised THEN None
                             ELSE IF r.ret # None THEN r.ret
                             ELSE Some(SensitivityLabel(
                                     effective_label[1],
                                     PurviewLabelOpen \o Prefix(effective_label[1], 8) \o DotsClose,
                                     PurviewLabelIdOpen \o Prefix(effective_label[1], 8) \o DotsClose,
                                     "orange", Some(0))),
                   raised |-> r.raised, resolved |-> Some(r.ret), gets |-> r.gets,
                   get_token |-> r.get_token, cache |-> r.cache ]
        ELSE quiet

\* The label extract_labels_from_search_results gives search result
\* `result` (one pass of its loop), None when it emits none:
\*   label     Optional label
\*   raised    whether an exception leaves the loop
\*   resolved  None when _resolve_purview_label was not called, else what it
\*             returned (None or a label)
\*   gets, get_token, cache  as _resolve_purview_label
ExtractLabel(cache, enable, result, user_access_token, env) ==
    LET effective_label == result.metadata_sensitivity_label
        quiet == [label |-> None, raised |-> FALSE, resolved |-> None, gets |-> <<>>,
                  get_token |-> 0, cache |-> cache]
    IN  IF ~Truthy(effective_label) THEN quiet
        ELSE IF _is_guid(effective_label[1]) /\ enable
        THEN LET r == _resolve_purview_label(cache, effective_label[1], user_access_token, env)
             IN  [ label |-> IF r.raised THEN None
                             ELSE IF r.ret # None THEN r.ret
                             ELSE Some(SensitivityLabel(
                                     effective_label[1],
                                     PurviewLabelOpen \o Prefix(effective_label[1], 8) \o DotsClose,
                                     PurviewLabelIdOpen \o Prefix(effective_label[1], 8) \o DotsClose,
                                     "orange", Some(0))),
                   raised |-> r.raised, resolved |-> Some(r.ret), gets |-> r.gets,
                   get_token |-> r.get_token, cache |-> r.cache ]
        ELSE [quiet EXCEPT !.label = Some(_create_label_from_string(effective_label[1]))]

\* The insertion of an unstable sort: an entry goes in front of those of
\* its own priority.
RECURSIVE InsertByPriority_unstable(_, _)
InsertByPriority_unstable(sorted_labels, dl) ==
    IF sorted_labels = <<>> THEN <<dl>>
    ELSE IF Head(sorted_labels).label.priority[1] > dl.label.priority[1]
         THEN <<Head(sorted_labels)>> \o InsertByPriority_unstable(Tail(sorted_labels), dl)
         ELSE <<dl>> \o sorted_labels

\* document_labels with the priority key of line 275 sorted in, after
\* every entry of the same or a higher priority.
RECURSIVE InsertByPriority(_, _)
InsertByPriority(sorted_labels, dl) ==
    IF sorted_labels = <<>> THEN <<dl>>
    ELSE IF Head(sorted_labels).label.priority[1] >= dl.label.priority[1]
         THEN <<Head(sorted_labels)>> \o InsertByPriority(Tail(sorted_labels), dl)
         ELSE <<dl>> \o sorted_labels

\* sorted(labels, key=lambda dl: dl.label.priority, reverse=True): a stable
\* sort, entries of equal priority keep their order.
RECURSIVE SortedByPriority(_)
SortedByPriority(labels) ==
    IF labels = <<>> THEN <<>>
    ELSE InsertByPriority(SortedByPriority(SubSeq(labels, 1, Len(labels) - 1)),
                          labels[Len(labels)])

\* The filter of line 271 written with >= for >.
HasPriority_or_zero(dl) == dl.label.priority[1] >= 0

\* dl.label.priority > 0 of the list comprehension of line 271.
HasPriority(dl) == dl.label.priority[1] > 0

\* compute_label_inheritance without the check of lines 266-268: on an empty
\* list document_labels[0] raises IndexError.
compute_label_inheritance_unchecked(document_labels) ==
    IF document_labels = <<>>
    THEN [ret |-> None, raised |-> TRUE]
    ELSE IF \E k \in 1..Len(document_labels) : document_labels[k].label.priority = None
    THEN [ret |-> None, raised |-> TRUE]
    ELSE LET labels_with_priority == SelectSeq(document_labels, HasPriority)
             chosen_label == IF labels_with_priority # <<>>
                             THEN SortedByPriority(labels_with_priority)[1].label
                             ELSE document_labels[1].label
         IN  [ ret |-> Some([overall_label |-> chosen_label, document_labels |-> document_labels]),
               raised |-> FALSE ]

\* compute_label_inheritance(document_labels):
\*   ret     None or the ResponseSensitivity
\*   raised  whether an exception leaves it (a priority of None cannot be
\*           compared with 0)
compute_label_inheritance(document_labels) ==
    IF document_labels = <<>>
    THEN [ret |-> None, raised |-> FALSE]
    ELSE IF \E k \in 1..Len(document_labels) : document_labels[k].label.priority = None
    THEN [ret |-> None, raised |-> TRUE]
    ELSE LET labels_with_priority == SelectSeq(document_labels, HasPriority)
             chosen_label == IF labels_with_priority # <<>>
                             THEN SortedByPriority(labels_with_priority)[1].label
                             ELSE document_labels[1].label
         IN  [ ret |-> Some([overall_label |-> chosen_label, document_labels |-> document_labels]),
               raised |-> FALSE ]

get_sensitivity_badge_info(label) ==
    [text |-> label.display_name, color |-> label.color, priority |-> label.priority,
     id |-> label.id, icon |-> "lock"]

\* ------------------------------------------------------------ RetrieveThenReadApproach

SensitivityLabelInfo(label) ==
    LET badge_info == get_sensitivity_badge_info(label)
    IN  [id |-> label.id, name |-> label.name, display_name |-> label.display_name,
         color |-> badge_info.color, icon |-> badge_info.icon]

\* Lines 277-316 of _process_sensitivity_labels, inside its try block, once
\* the extraction has returned document_labels:
\*   ret     what the block returns (None or the ResponseSensitivityInfo)
\*   raised  whether an exception leaves the block
SensitivityBody(document_labels) ==
    IF document_labels = <<>> THEN [ret |-> None, raised |-> FALSE]
    ELSE LET r == compute_label_inheritance(document_labels)
         IN  IF r.raised THEN [ret |-> None, raised |-> TRUE]
             ELSE IF r.ret = None THEN [ret |-> None, raised |-> FALSE]
             ELSE [ ret |-> Some([ overall_label |-> SensitivityLabelInfo(r.ret[1].overall_label),
                         document_labels |->
                             [k \in 1..Len(r.ret[1].document_labels) |->
                                 [ document_id |-> r.ret[1].document_labels[k].document_id,
                                   source_file |-> r.ret[1].document_labels[k].source_file,
                                   label |-> SensitivityLabelInfo(r.ret[1].document_labels[k].label) ]] ]),
                    raised |-> FALSE ]

\* The try block of _process_sensitivity_labels without its `except
\* Exception` clause: an exception leaves the method.
ExceptException_reraise(outcome) == outcome

\* `except Exception` of lines 318-322 applied to the outcome of the try
\* block: an exception is logged and None returned.
ExceptException(outcome) ==
    IF outcome.raised THEN [ret |-> None, raised |-> FALSE] ELSE outcome

\* Lines 277-322 of _process_sensitivity_labels: what it returns once the
\* extraction has returned document_labels.
ProcessDocumentLabels(document_labels) ==
    ExceptException(SensitivityBody(document_labels)).ret

\* thoughts of the ExtraInfo of lines 174-195 and 227-252, as far as the
\* search results decide them.
Thoughts(results) == << [title |-> "Search results", results |-> results] >>

\* ExtraInfo(DataPoints(text=text_sources, sensitivity=sensitivity_info),
\* thoughts=[...]) as run_search_approach and run_agentic_retrieval_approach
\* return it.
ExtraInfo(text, sensitivity, thoughts) ==
    [made |-> TRUE, raised |-> FALSE, text |-> text, sensitivity |-> sensitivity,
     thoughts |-> thoughts]

\* What get_sources_content returns for n search results: one text for
\* each, the same content in all of them.
TextSources(n) == { [k \in 1..n |-> c] : c \in {"content a", "content b"} }

\* The dictionary lines 263-268 build of the k-th search result.
ResultDict(k, label_field) ==
    [ id |-> k,
      sourcefile |-> IF k % 2 = 1 THEN "a.pdf" ELSE "unknown",
      metadata_sensitivity_label |-> label_field ]

\* What a search result's metadata_sensitivity_label holds: no such
\* attribute, "", a GUID, a free-text label.
LabelFields == {None, Some(<<>>), Some(G1), Some(G2), Some(TopSecret)}

RECURSIVE SeqsUpTo(_, _)
SeqsUpTo(S, n) ==
    IF n = 0 THEN {<<>>}
    ELSE LET shorter == SeqsUpTo(S, n - 1)
         IN  shorter \cup {Append(q, x) : q \in {q \in shorter : Len(q) = n - 1}, x \in S}

\* The label fields of the search results of one request.
RequestInputs == SeqsUpTo(LabelFields, MaxDocs)

\* ------------------------------------------------------------ state

VARIABLES
    _label_cache,                   \* LabelHelper._label_cache: identifier -> label
    enable_graph_label_resolution,  \* LabelHelper.enable_graph_label_resolution
    call,                \* the latest direct call of _resolve_purview_label, at its boundary
    prev,                \* per identifier: how its previous direct resolution ended, and its age
    pc,                  \* where the request in progress stands
    search_results,      \* search_results_dicts of the request
    user_graph_token,    \* auth_claims.get("graph_access_token")
    i,                   \* index of the search result the extraction loop is at
    document_labels,     \* document_labels of the extraction (its input, for the computation alone)
    requests,            \* GET requests, get_token calls and resolver calls of the request so far
    response_sensitivity,   \* what compute_label_inheritance returned
    sensitivity_info,       \* what _process_sensitivity_labels returned
    text_sources,           \* text_sources of run_search_approach
    extra_info              \* what run_search_approach did: the ExtraInfo returned, or raised

vars == <<_label_cache, enable_graph_label_resolution, call, prev, pc, search_results,
          user_graph_token, i, document_labels, requests, response_sensitivity,
          sensitivity_info, text_sources, extra_info>>

request_vars == <<pc, search_results, user_graph_token, i, document_labels, requests,
                  response_sensitivity, sensitivity_info, text_sources, extra_info>>

NoCache == [g \in {} |-> None]

NoCall ==
    [ made |-> FALSE, label_id |-> <<>>, user_access_token |-> None, ret |-> None,
      raised |-> FALSE, exit |-> "except", gets |-> <<>>, get_token |-> 0,
      before |-> "never" ]

NoRequests == [gets |-> <<>>, get_token |-> 0, calls |-> <<>>]

NotComputed == [ret |-> None, raised |-> FALSE]

NoExtraInfo ==
    [made |-> FALSE, raised |-> FALSE, text |-> <<>>, sensitivity |-> None, thoughts |-> <<>>]

Idle ==
    /\ pc = "idle"
    /\ search_results = <<>>
    /\ user_graph_token = None
    /\ i = 1
    /\ document_labels = <<>>
    /\ requests = NoRequests
    /\ response_sensitivity = NotComputed
    /\ sensitivity_info = None
    /\ text_sources = <<>>
    /\ extra_info = NoExtraInfo

Init ==
    /\ _label_cache = NoCache
    /\ enable_graph_label_resolution \in BOOLEAN
    /\ call = NoCall
    /\ prev = [g \in GUIDs |-> [seen |-> FALSE, age |-> 0, ret |-> None]]
    /\ Idle

\* ------------------------------------------------------------ the resolver called on its own

\* How the previous resolution of label_id, if any, ended and whether it is
\* still inside the window.
Before(label_id) ==
    IF ~prev[label_id].seen THEN "never"
    ELSE IF prev[label_id].age <= TTLTicks
         THEN (IF prev[label_id].ret # None THEN "ok_fresh" ELSE "failed_fresh")
         ELSE (IF prev[label_id].ret # None THEN "ok_stale" ELSE "failed_stale")

\* A caller resolves label_id.
Resolve(label_id, user_access_token, env) ==
    \E r \in {_resolve_purview_label(_label_cache, label_id, user_access_token, env)} :
        /\ _label_cache' = r.cache
        /\ call' = [ made |-> TRUE, label_id |-> label_id,
                     user_access_token |-> user_access_token,
                     ret |-> r.ret, raised |-> r.raised, exit |-> r.exit, gets |-> r.gets,
                     get_token |-> r.get_token, before |-> Before(label_id) ]
        /\ prev' = [prev EXCEPT ![label_id] = [seen |-> TRUE, age |-> 0, ret |-> r.ret]]
        /\ UNCHANGED <<enable_graph_label_resolution, request_vars>>

\* Time passes: every past resolution grows one tick older (ages past the
\* window are all alike).
Tick ==
    /\ prev' = [g \in GUIDs |->
                  IF prev[g].seen /\ prev[g].age <= TTLTicks
                  THEN [prev[g] EXCEPT !.age = @ + 1]
                  ELSE prev[g]]
    /\ UNCHANGED <<_label_cache, enable_graph_label_resolution, call, request_vars>>

InitResolver == Init /\ enable_graph_label_resolution

NextResolver ==
    \/ \E g \in GUIDs, t \in CallerTokens : \E env \in Envs(t) : Resolve(g, t, env)
    \/ Tick

SpecResolver == InitResolver /\ [][NextResolver]_vars

\* ------------------------------------------------------------ a request

\* run_search_approach has its results and text_sources (line 169) and calls
\* _process_sensitivity_labels with `results` and the caller's token: lines
\* 259-275, up to the extraction loop.
StartRequest ==
    /\ pc = "idle"
    /\ pc' = "extract"
    /\ \E label_fields \in RequestInputs :
           /\ search_results' = [k \in 1..Len(label_fields) |-> ResultDict(k, label_fields[k])]
           /\ text_sources' \in TextSources(Len(label_fields))
    /\ \E token \in CallerTokens : user_graph_token' = token
    /\ extra_info' = NoExtraInfo
    /\ i' = 1
    /\ document_labels' = <<>>
    /\ requests' = NoRequests
    /\ response_sensitivity' = NotComputed
    /\ sensitivity_info' = None
    /\ UNCHANGED <<_label_cache, enable_graph_label_resolution, call, prev>>

\* One pass of the loop of extract_labels_from_search_results.  An
\* exception leaving it meets the `except Exception` of line 318.
ExtractStep ==
    /\ pc = "extract"
    /\ i <= Len(search_results)
    /\ \E env \in Envs(user_graph_token) :
       \E e \in {ExtractLabel(_label_cache, enable_graph_label_resolution,
                              search_results[i], user_graph_token, env)} :
           /\ _label_cache' = e.cache
           /\ requests' = [gets |-> requests.gets \o e.gets,
                           get_token |-> requests.get_token + e.get_token,
                           calls |-> IF e.resolved = None THEN requests.calls
                                     ELSE Append(requests.calls,
                                                 [document_id |-> search_results[i].id,
                                                  ret |-> e.resolved[1]])]
           /\ document_labels' =
                  IF e.label # None
                  THEN Append(document_labels,
                              DocumentLabel(search_results[i].id, search_results[i].sourcefile,
                                            e.label[1]))
                  ELSE document_labels
           /\ pc' = IF ~e.raised THEN "extract"
                    ELSE IF ExceptException([ret |-> None, raised |-> TRUE]).raised
                         THEN "raised" ELSE "done"
           /\ i' = IF e.raised THEN i ELSE i + 1
    /\ UNCHANGED <<enable_graph_label_resolution, call, prev, search_results,
                   user_graph_token, response_sensitivity, sensitivity_info,
                   text_sources, extra_info>>

\* The loop has ended: lines 228-229 and 277-322.
ComputeSensitivity ==
    /\ pc = "extract"
    /\ i > Len(search_results)
    /\ pc' = IF ExceptException(SensitivityBody(document_labels)).raised
             THEN "raised" ELSE "done"
    /\ response_sensitivity' =
           IF document_labels = <<>> THEN NotComputed
           ELSE compute_label_inheritance(document_labels)
    /\ sensitivity_info' = ProcessDocumentLabels(document_labels)
    /\ UNCHANGED <<_label_cache, enable_graph_label_resolution, call, prev, search_results,
                   user_graph_token, i, document_labels, requests, text_sources, extra_info>>

\* _process_sensitivity_labels has ended: run_search_approach returns its
\* ExtraInfo (lines 174-195), or the exception that left
\* _process_sensitivity_labels leaves it too.
Respond ==
    /\ pc \in {"done", "raised"}
    /\ pc' = "answered"
    /\ extra_info' =
           IF pc = "raised"
           THEN [NoExtraInfo EXCEPT !.made = TRUE, !.raised = TRUE]
           ELSE ExtraInfo(text_sources, sensitivity_info, Thoughts(search_results))
    /\ UNCHANGED <<_label_cache, enable_graph_label_resolution, call, prev, search_results,
                   user_graph_token, i, document_labels, requests, response_sensitivity,
                   sensitivity_info, text_sources>>

\* run() hands the answer on (lines 122-134); the request and its locals
\* are gone.
ReturnAnswer ==
    /\ pc = "answered"
    /\ pc' = "idle"
    /\ search_results' = <<>>
    /\ user_graph_token' = None
    /\ i' = 1
    /\ document_labels' = <<>>
    /\ requests' = NoRequests
    /\ response_sensitivity' = NotComputed
    /\ sensitivity_info' = None
    /\ text_sources' = <<>>
    /\ extra_info' = NoExtraInfo
    /\ UNCHANGED <<_label_cache, enable_graph_label_resolution, call, prev>>

Next ==
    \/ StartRequest
    \/ ExtractStep
    \/ ComputeSensitivity
    \/ Respond
    \/ ReturnAnswer

Spec == Init /\ [][Next]_vars

\* ------------------------------------------------------------ the inheritance computed on its own

PriorityValues == {None, Some(-1), Some(0), Some(1), Some(5)}

InheritanceLabels ==
    { SensitivityLabel(<<n>>, <<n>>, <<n>>, "orange", p) : n \in {"A", "B", "C"}, p \in PriorityValues }

InitInheritance ==
    /\ _label_cache = NoCache
    /\ enable_graph_label_resolution = TRUE
    /\ call = NoCall
    /\ prev = [g \in GUIDs |-> [seen |-> FALSE, age |-> 0, ret |-> None]]
    /\ pc = "compute"
    /\ search_results = <<>>
    /\ user_graph_token = None
    /\ i = 1
    /\ \E labels \in SeqsUpTo(InheritanceLabels, MaxLabels) :
           document_labels = [k \in 1..Len(labels) |-> DocumentLabel(k, "unknown", labels[k])]
    /\ requests = NoRequests
    /\ response_sensitivity = NotComputed
    /\ sensitivity_info = None
    /\ text_sources = <<>>
    /\ extra_info = NoExtraInfo

Compute ==
    /\ pc = "compute"
    /\ pc' = "computed"
    /\ response_sensitivity' = compute_label_inheritance(document_labels)
    /\ UNCHANGED <<_label_cache, enable_graph_label_resolution, call, prev, search_results,
                   user_graph_token, i, document_labels, requests, sensitivity_info,
                   text_sources, extra_info>>

NextInheritance == Compute

SpecInheritance == InitInheritance /\ [][NextInheritance]_vars

\* ------------------------------------------------------------ the resolver's cache

\* The call `call` went to the label endpoint itself: with a caller's token
\* it issued one GET; it issued none only when the credential gave no
\* token; and a label it returned came from a GET of its own, for its own
\* identifier.
LookedUpAfresh ==
    /\ Len(call.gets) <= 1
    /\ Truthy(call.user_access_token) => Len(call.gets) = 1
    /\ call.gets = <<>> =>
           ~Truthy(call.user_access_token) /\ call.get_token = 1 /\ call.exit = "except"
    /\ call.ret # None =>
           Len(call.gets) = 1 /\ call.gets[1].label_id = call.label_id
                              /\ call.exit = "return_label"

\* The step is a call of _resolve_purview_label.
ResolveStep ==
    /\ call'.made
    /\ prev'[call'.label_id].age = 0
    /\ (call' # call \/ prev' # prev)

\* C1, as claimed: once an identifier has been resolved with success, a
\* later resolution of it inside the window returns the identical label and
\* issues no external lookup.
C1_LaterResolutionFromCache ==
    [][ (ResolveStep /\ Before(call'.label_id) = "ok_fresh")
            => (call'.gets = <<>> /\ call'.ret = prev[call'.label_id].ret) ]_vars

\* C1, amended: a resolution of an identifier that was resolved with success
\* inside the window reuses nothing: it goes to the label endpoint again (one
\* GET whenever an access token is at hand), any label it returns comes from
\* that GET, and the cache stays empty.
C1_LaterResolutionLooksUpAgain ==
    (call.made /\ call.before = "ok_fresh") => (LookedUpAfresh /\ _label_cache = NoCache)

\* A second resolution inside the window of a successful one has issued its
\* own GET and returned a label.
C1_Witness ==
    /\ call.made
    /\ call.before = "ok_fresh"
    /\ Len(call.gets) = 1
    /\ call.ret # None

\* C2, as claimed: a failed resolution stores a failure entry (None) for the
\* identifier and returns None, and a later resolution of the identifier
\* inside the window returns None without an external lookup.
C2_FailureIsCached ==
    /\ (call.made /\ call.exit # "return_label") =>
           /\ call.ret = None
           /\ call.label_id \in DOMAIN _label_cache
    /\ (call.made /\ call.before = "failed_fresh") =>
           (call.ret = None /\ call.gets = <<>>)

\* C2, amended: a failed resolution (no token, a status other than 200, a
\* transport error or a timeout) returns None and stores nothing, and a
\* later resolution of the identifier inside the window is a lookup of its
\* own, which may succeed.
C2_FailureIsNotCached ==
    /\ (call.made /\ call.exit # "return_label") =>
           (call.ret = None /\ _label_cache = NoCache)
    /\ (call.made /\ call.before = "failed_fresh") => LookedUpAfresh

\* A resolution inside the window of a failed one has issued its own GET
\* and returned a label.
C2_Witness ==
    /\ call.made
    /\ call.before = "failed_fresh"
    /\ Len(call.gets) = 1
    /\ call.ret # None

\* C3, as claimed: once the window has passed since an identifier's entry
\* went in (since its last resolution), the next resolution of it is a miss
\* that leaves no stale entry and issues exactly one external lookup.
C3_StaleResolutionLooksUpOnce ==
    (call.made /\ call.before \in {"ok_stale", "failed_stale"}) =>
        (Len(call.gets) = 1 /\ call.label_id \notin DOMAIN _label_cache)

\* C3, amended: no entry is ever stored, so none can be returned stale; a
\* resolution made once the window has passed since the identifier's last
\* resolution is a miss, leaves no entry, and issues exactly one external
\* lookup when an access token is at hand and none when the credential
\* gives no token.
C3_StaleResolutionLooksUpAfresh ==
    (call.made /\ call.before \in {"ok_stale", "failed_stale"}) =>
        (LookedUpAfresh /\ call.label_id \notin DOMAIN _label_cache)

\* A resolution made after the window of a successful one has issued its
\* own GET.
C3_Witness ==
    /\ call.made
    /\ call.before = "ok_stale"
    /\ Len(call.gets) = 1

\* C4: the label cache never holds more entries than the configured
\* maximum.
C4_CacheWithinMaximum ==
    Cardinality(DOMAIN _label_cache) <= MaxCacheEntries

\* More identifiers than the maximum have been resolved with success.
C4_Witness ==
    /\ Cardinality({g \in GUIDs : prev[g].seen /\ prev[g].ret # None}) > MaxCacheEntries
    /\ Cardinality(DOMAIN _label_cache) <= MaxCacheEntries

\* C6: _resolve_purview_label raises nothing: a credential failure, a status
\* other than 200, a transport error and a timeout each end in the return
\* value None.
C6_ResolverNeverRaises ==
    call.made =>
        /\ ~call.raised
        /\ call.exit \in {"return_label", "return_none", "except"}
        /\ call.exit # "return_label" => call.ret = None
        /\ call.exit = "return_label" => call.ret # None

\* A GET was issued and an exception followed it (a transport error, a
\* timeout, an unreadable body): the call returned None.
C6_Witness ==
    /\ call.made
    /\ call.exit = "except"
    /\ Len(call.gets) = 1
    /\ call.ret = None
    /\ ~call.raised

\* ------------------------------------------------------------ the extraction

\* The GETs in `gets` that ask for identifier g.
GetsFor(gets, g) == Len(SelectSeq(gets, LAMBDA r : r.label_id = g))

\* The search results the loop has dealt with.
Processed == SubSeq(search_results, 1, i - 1)

\* Those among `results` whose label field holds g.
Carrying(results, g) ==
    Len(SelectSeq(results, LAMBDA r : r.metadata_sensitivity_label = Some(g)))

\* C5, as claimed: one extraction issues at most one external lookup for
\* each identifier, however many documents carry it.
C5_OneLookupPerIdentifier ==
    \A g \in GUIDs : GetsFor(requests.gets, g) <= 1

\* C5, amended: one extraction issues at most one external lookup for each
\* document that carries an identifier, and exactly one for each when the
\* caller's token is supplied and resolution is enabled: documents that
\* share an identifier are each looked up.
C5_OneLookupPerDocument ==
    \A g \in GUIDs :
        /\ GetsFor(requests.gets, g) <= Carrying(Processed, g)
        /\ (enable_graph_label_resolution /\ Truthy(user_graph_token)) =>
               GetsFor(requests.gets, g) = Carrying(Processed, g)
        /\ ~enable_graph_label_resolution => GetsFor(requests.gets, g) = 0

\* Two documents of one batch carried the same identifier and each was
\* looked up.
C5_Witness ==
    /\ pc = "done"
    /\ \E g \in GUIDs : Carrying(search_results, g) = 2 /\ GetsFor(requests.gets, g) = 2

\* The search results among `results` whose label field is present and not
\* empty.
Labelled(results) == SelectSeq(results, LAMBDA r : Truthy(r.metadata_sensitivity_label))

\* C10: the extraction emits one DocumentLabel for each document whose label
\* field is present and not empty, none for the others, in the order of the
\* documents.
C10_OneLabelPerLabelledDocument ==
    /\ Len(document_labels) = Len(Labelled(Processed))
    /\ \A k \in 1..Len(document_labels) :
           document_labels[k].document_id = Labelled(Processed)[k].id

\* A batch of a document without the field and a document with an
\* identifier gave one label, the second document's.
C10_Witness ==
    /\ pc = "done"
    /\ Len(search_results) = 2
    /\ search_results[1].metadata_sensitivity_label = None
    /\ search_results[2].metadata_sensitivity_label = Some(G1)
    /\ Len(document_labels) = 1
    /\ document_labels[1].document_id = 2
    /\ document_labels[1].label.id = G1

\* C9: sensitivity information exists only where a DocumentLabel exists:
\* compute_label_inheritance of the empty list returns None and raises
\* nothing, and _process_sensitivity_labels returns None when the
\* extraction gives no document labels.
C9_NoLabelsNoSensitivity ==
    /\ compute_label_inheritance(<<>>) = [ret |-> None, raised |-> FALSE]
    /\ (pc = "done" /\ document_labels = <<>>) => sensitivity_info = None
    /\ sensitivity_info # None =>
           (document_labels # <<>> /\ response_sensitivity.ret # None)

\* A request whose search results carry no label has ended with None.
C9_Witness ==
    /\ pc = "done"
    /\ search_results # <<>>
    /\ document_labels = <<>>
    /\ sensitivity_info = None

\* ------------------------------------------------------------ the inheritance

Priorities(dls) == [k \in 1..Len(dls) |-> dls[k].label.priority]

\* Every priority is a number.
Numeric(dls) == \A k \in 1..Len(dls) : dls[k].label.priority # None

\* The first place in dls of its highest priority.
FirstHighest(dls) ==
    CHOOSE k \in 1..Len(dls) :
        /\ \A j \in 1..Len(dls) : dls[j].label.priority[1] <= dls[k].label.priority[1]
        /\ \A j \in 1..(k - 1) : dls[j].label.priority[1] < dls[k].label.priority[1]

\* C7: of document labels with numeric priorities, one of them above 0,
\* compute_label_inheritance returns as overall_label the label of the
\* highest priority, the first in input order among several.
C7_HighestPriorityFirstOfTies ==
    ( /\ pc = "computed"
      /\ document_labels # <<>>
      /\ Numeric(document_labels)
      /\ \E k \in 1..Len(document_labels) : document_labels[k].label.priority[1] > 0 )
    => /\ ~response_sensitivity.raised
       /\ response_sensitivity.ret # None
       /\ response_sensitivity.ret[1].overall_label
              = document_labels[FirstHighest(document_labels)].label

\* Priorities 0 'A', 5 'B', 5 'C' gave 'B'.
C7_Witness ==
    /\ pc = "computed"
    /\ Priorities(document_labels) = <<Some(0), Some(5), Some(5)>>
    /\ [k \in 1..3 |-> document_labels[k].label.name] = << <<"A">>, <<"B">>, <<"C">> >>
    /\ response_sensitivity.ret # None
    /\ response_sensitivity.ret[1].overall_label.name = <<"B">>

\* C8: of document labels with numeric priorities, none of them above 0,
\* compute_label_inheritance returns the first document's label as
\* overall_label.
C8_FirstDocumentWithoutPriority ==
    ( /\ pc = "computed"
      /\ document_labels # <<>>
      /\ Numeric(document_labels)
      /\ \A k \in 1..Len(document_labels) : document_labels[k].label.priority[1] <= 0 )
    => /\ ~response_sensitivity.raised
       /\ response_sensitivity.ret # None
       /\ response_sensitivity.ret[1].overall_label = document_labels[1].label

\* Priorities 0 'A', 0 'B' gave 'A'.
C8_Witness ==
    /\ pc = "computed"
    /\ Priorities(document_labels) = <<Some(0), Some(0)>>
    /\ [k \in 1..2 |-> document_labels[k].label.name] = << <<"A">>, <<"B">> >>
    /\ response_sensitivity.ret # None
    /\ response_sensitivity.ret[1].overall_label.name = <<"A">>

\* ------------------------------------------------------------ the labels of the extraction

\* s holds sub as a substring.
Contains(s, sub) ==
    \E j \in 1..(Len(s) - Len(sub) + 1) : SubSeq(s, j, j + Len(sub) - 1) = sub

\* The label the extraction gave the document of id k.
LabelOfDocument(k) ==
    (CHOOSE dl \in {document_labels[n] : n \in 1..Len(document_labels)} :
        dl.document_id = k).label

\* Label l stands in for identifier g: it has g itself as id, priority 0,
\* and a name and a display name that show the first 8 characters of g.
FallbackShape(l, g) ==
    /\ l.id = g
    /\ l.priority = Some(0)
    /\ Contains(l.name, Prefix(g, 8))
    /\ Contains(l.display_name, Prefix(g, 8))

\* C11: a document whose label field is a GUID that the resolver returned
\* None for gets a fallback label, not a label made from the string: its id
\* is the GUID, its priority 0, its name and display name show the first 8
\* characters of the GUID, and its color is not the color a free-text label
\* gets.
C11_FallbackLabelDistinctColor ==
    \A n \in 1..Len(requests.calls) :
        requests.calls[n].ret = None =>
            LET k == requests.calls[n].document_id
                g == search_results[k].metadata_sensitivity_label[1]
                l == LabelOfDocument(k)
            IN  /\ _is_guid(g)
                /\ FallbackShape(l, g)
                /\ l # _create_label_from_string(g)
                /\ l.color # _create_label_from_string(TopSecret).color

\* id is name lower-cased with a hyphen for each space, character by
\* character.
IsSlugOf(id, name) ==
    /\ Len(id) = Len(name)
    /\ \A j \in 1..Len(name) :
           id[j] = IF name[j] = " " THEN "-" ELSE LowerChar(name[j])

\* C12: a document whose label field is a non-empty string that is no GUID
\* causes no call of the resolver and no external lookup, and gets a label
\* whose id is the string lower-cased with a hyphen for each space, whose
\* name and display name are the string itself, and whose priority is 0;
\* "Confidential" gives id "confidential" and display name "Confidential".
C12_FreeTextLabel ==
    /\ \A k \in 1..(i - 1) :
           LET f == search_results[k].metadata_sensitivity_label
           IN  (Truthy(f) /\ ~_is_guid(f[1])) =>
                   /\ \A n \in 1..Len(requests.calls) : requests.calls[n].document_id # k
                   /\ Len(requests.gets) <= Len(requests.calls)
                   /\ IsSlugOf(LabelOfDocument(k).id, f[1])
                   /\ LabelOfDocument(k).name = f[1]
                   /\ LabelOfDocument(k).display_name = f[1]
                   /\ LabelOfDocument(k).priority = Some(0)
    /\ _create_label_from_string(Confidential).id
           = <<"c", "o", "n", "f", "i", "d", "e", "n", "t", "i", "a", "l">>
    /\ _create_label_from_string(Confidential).display_name = Confidential

\* With resolution enabled and a caller's token, a request whose only
\* document carries "Top Secret" ended with the label of id "top-secret"
\* and without a GET.
C12_Witness ==
    /\ pc = "done"
    /\ enable_graph_label_resolution
    /\ Truthy(user_graph_token)
    /\ Len(search_results) = 1
    /\ search_results[1].metadata_sensitivity_label = Some(TopSecret)
    /\ Len(document_labels) = 1
    /\ document_labels[1].label.id = <<"t", "o", "p", "-", "s", "e", "c", "r", "e", "t">>
    /\ document_labels[1].label.display_name = TopSecret
    /\ requests.gets = <<>>
    /\ requests.get_token = 0

\* ------------------------------------------------------------ the answer

\* info is a ResponseSensitivityInfo of the document labels `labels`: an
\* overall label and one entry for each of them.
IsResponseSensitivityInfo(info, labels) ==
    /\ DOMAIN info = {"overall_label", "document_labels"}
    /\ Len(info.document_labels) = Len(labels)
    /\ info.document_labels # <<>>
    /\ \E k \in 1..Len(info.document_labels) :
           info.overall_label = info.document_labels[k].label

\* C13: no failure of the label pipeline reaches the answering flow: no
\* exception leaves _process_sensitivity_labels, which returns None or a
\* ResponseSensitivityInfo, and None when the inheritance raised; while it
\* runs, the results and text_sources of the caller stay as they were; and
\* the ExtraInfo the caller returns has the text sources and thoughts it
\* would have with no sensitivity information at all.
C13_FailuresStayInsidePipeline ==
    [][ /\ pc' # "raised"
        /\ pc' \in {"done", "answered"} =>
               \/ sensitivity_info' = None
               \/ IsResponseSensitivityInfo(sensitivity_info'[1], document_labels')
        /\ response_sensitivity'.raised => sensitivity_info' = None
        /\ pc \in {"extract", "done"} =>
               (text_sources' = text_sources /\ search_results' = search_results)
        /\ pc' = "answered" =>
               /\ extra_info'.made
               /\ ~extra_info'.raised
               /\ extra_info'.sensitivity = sensitivity_info'
               /\ extra_info'.text = ExtraInfo(text_sources, None, Thoughts(search_results)).text
               /\ extra_info'.thoughts
                      = ExtraInfo(text_sources, None, Thoughts(search_results)).thoughts
      ]_vars

\* The inheritance raised on the labels of a request (a priority of null),
\* and the request was answered with its text sources and without
\* sensitivity information.
C13_Witness ==
    /\ pc = "answered"
    /\ document_labels # <<>>
    /\ response_sensitivity.raised
    /\ extra_info.made
    /\ ~extra_info.raised
    /\ extra_info.sensitivity = None
    /\ extra_info.text = text_sources
    /\ text_sources # <<>>

\* ------------------------------------------------------------ the priorities

\* priority is a number and not below 0.
NonNegative(priority) == priority # None /\ priority[1] >= 0

\* C14: every label the resolver, the extraction and the inheritance
\* produce has a priority of 0 or more, whatever the label endpoint answers
\* (priority absent, zero, positive, negative or null).
C14_PriorityNonNegative ==
    /\ \A k \in 1..Len(document_labels) : NonNegative(document_labels[k].label.priority)
    /\ response_sensitivity.ret # None =>
           NonNegative(response_sensitivity.ret[1].overall_label.priority)

\* ------------------------------------------------------------ the token

\* s without one leading "Bearer ".
WithoutOneBearer(s) ==
    IF Len(s) >= 7 /\ SubSeq(s, 1, 7) = <<"B", "e", "a", "r", "e", "r", " ">>
    THEN SubSeq(s, 8, Len(s))
    ELSE s

\* The Authorization headers of the GETs of the request.
Authorizations == {requests.gets[n].authorization : n \in 1..Len(requests.gets)}

\* C15: the caller's token comes first.  With a non-empty token from the
\* caller every lookup of the request carries that token, one leading
\* "Bearer " taken off, and the credential is never asked for a token; the
\* credential's token is carried only when the caller gave none (None or
\* ""), and then the credential is asked at most once for each resolver
\* call.
C15_CallerTokenFirst ==
    /\ Truthy(user_graph_token) =>
           /\ requests.get_token = 0
           /\ Len(requests.gets) = Len(requests.calls)
           /\ Authorizations \subseteq
                  { <<"B", "e", "a", "r", "e", "r", " ">> \o WithoutOneBearer(user_graph_token[1]) }
    /\ ~Truthy(user_graph_token) =>
           /\ Authorizations \subseteq { <<"B", "e", "a", "r", "e", "r", " ">> \o AppTok }
           /\ Len(requests.gets) <= requests.get_token
           /\ requests.get_token <= Len(requests.calls)
    /\ requests.get_token > 0 => ~Truthy(user_graph_token)

\* The caller's token came as "Bearer Bearer tokU": one prefix was taken
\* off and the header "Bearer " + "Bearer tokU" sent, and the credential was
\* not asked.
C15_Witness ==
    /\ user_graph_token = Some(<<"B", "e", "a", "r", "e", "r", " ", "B", "e", "a", "r", "e", "r", " ", "t", "o", "k", "U">>)
    /\ Len(requests.gets) = 1
    /\ requests.gets[1].authorization
           = <<"B", "e", "a", "r", "e", "r", " ", "B", "e", "a", "r", "e", "r", " ", "t", "o", "k", "U">>
    /\ requests.get_token = 0

====
